---- MODULE Spec2Model ----
(***************************************************************************)
(* State-machine model of core/rate_limiter.py (class RateLimiter).        *)
(*                                                                         *)
(* Representation                                                          *)
(*  - time.time() is the clock `now`, counted in ticks of 1/TicksPerSec    *)
(*    second; int(time.time()) is now \div TicksPerSec.                    *)
(*  - Python floats are exact rationals: token and water amounts are       *)
(*    stored as integers in units of 1/Scale, durations that are quotients *)
(*    are fractions [num, den] in seconds.                                 *)
(*  - Optional[int] None is None (0): the code only ever tests             *)
(*    burst_limit for truthiness, and 0 and None are both falsy.           *)
(*  - dicts are functions; `k in d` is k \in DOMAIN d.                      *)
(*  - a raised exception is the result [error |-> name].                   *)
(***************************************************************************)
EXTENDS Integers, Sequences, FiniteSets, TLC

VARIABLES rules, counters, locks, now, pc, call, ret, log

vars == <<rules, counters, locks, now, pc, call, ret, log>>

(***************************************************************************)
(* Bounds of the model                                                     *)
(***************************************************************************)
TicksPerSec == 2
MaxTime == 4
NumProcs == 3
MaxCost == 2

(***************************************************************************)
(* RateLimitStrategy, RateLimitRule                                        *)
(***************************************************************************)
FIXED_WINDOW == "fixed_window"
SLIDING_WINDOW == "sliding_window"
TOKEN_BUCKET == "token_bucket"
LEAKY_BUCKET == "leaky_bucket"

None == 0

RateLimitRule(s, rpp, per, burst, cpr) ==
  [strategy |-> s, requests_per_period |-> rpp, period_seconds |-> per,
   burst_limit |-> burst, cost_per_request |-> cpr]

\* Python truthiness of an Optional[int], and `a or b`
Truthy(x) == x # None
PyOr(a, b) == IF Truthy(a) THEN a ELSE b

Max(a, b) == IF a >= b THEN a ELSE b
Min(a, b) == IF a <= b THEN a ELSE b

\* Every period_seconds used by a rule of the model divides PeriodLcm, so
\* that amount * Scale is an integer for every amount the code computes.
PeriodLcm == 2 * 2 * 3 * 5
Scale == TicksPerSec * PeriodLcm

Frac(n, d) == [num |-> n, den |-> d]

Raise(e) == [error |-> e]

\* f"{key}:{identifier}"
CounterKey(key, identifier) == key \o ":" \o identifier

DictSet(d, k, v) == (k :> v) @@ d
DictDel(d, k) == [j \in DOMAIN d \ {k} |-> d[j]]

RECURSIVE SeqMin(_)
SeqMin(s) == IF Len(s) = 1 THEN s[1] ELSE Min(s[1], SeqMin(Tail(s)))

RECURSIVE Repeat(_, _)
Repeat(x, n) == IF n <= 0 THEN << >> ELSE <<x>> \o Repeat(x, n - 1)

(***************************************************************************)
(* _check_fixed_window                                                     *)
(***************************************************************************)
WindowStart(t, rule) ==
  LET nowS == t \div TicksPerSec
  IN  nowS - (nowS % rule.period_seconds)

NewWindowNoRollover(ck, ws, ctrs) ==
  \/ ck \notin DOMAIN ctrs
  \/ "window" \notin DOMAIN ctrs[ck]
  \/ ctrs[ck].window > ws

NewWindow(ck, ws, ctrs) ==
  \/ ck \notin DOMAIN ctrs
  \/ "window" \notin DOMAIN ctrs[ck]
  \/ ctrs[ck].window # ws

FixedAllowOne(counter, rule, cost, nowS) ==
  LET new_count == counter.count + 1
  IN  [ret |-> [allowed |-> TRUE,
                remaining |-> rule.requests_per_period - new_count,
                reset_in |-> counter.reset_time - nowS],
       counter |-> [counter EXCEPT !.count = new_count]]

FixedAllow(counter, rule, cost, nowS) ==
  LET new_count == counter.count + cost
  IN  [ret |-> [allowed |-> TRUE,
                remaining |-> rule.requests_per_period - new_count,
                reset_in |-> counter.reset_time - nowS],
       counter |-> [counter EXCEPT !.count = new_count]]

\* count + cost > rule.requests_per_period
OverQuotaBefore(count, cost, rule) == count > rule.requests_per_period

OverQuota(count, cost, rule) == count + cost > rule.requests_per_period

\* rule.burst_limit and counter['count'] >= rule.burst_limit
BurstExceededAbove(counter, rule) ==
  Truthy(rule.burst_limit) /\ counter.count > rule.burst_limit

BurstExceeded(counter, rule) ==
  Truthy(rule.burst_limit) /\ counter.count >= rule.burst_limit

CheckFixedWindow(ck, rule, cost, t, ctrs) ==
  IF rule.period_seconds = 0
  THEN [ret |-> Raise("ZeroDivisionError"), counters |-> ctrs]
  ELSE
  LET nowS == t \div TicksPerSec
      window_start == WindowStart(t, rule)
      counter == IF NewWindow(ck, window_start, ctrs)
                 THEN [count |-> 0, window |-> window_start,
                       reset_time |-> window_start + rule.period_seconds]
                 ELSE ctrs[ck]
  IN  IF BurstExceeded(counter, rule)
      THEN [ret |-> [allowed |-> FALSE, reason |-> "burst_limit_exceeded",
                     reset_in |-> counter.reset_time - nowS,
                     current |-> counter.count,
                     limit |-> rule.burst_limit],
            counters |-> DictSet(ctrs, ck, counter)]
      ELSE IF OverQuota(counter.count, cost, rule)
      THEN [ret |-> [allowed |-> FALSE, reason |-> "rate_limit_exceeded",
                     reset_in |-> counter.reset_time - nowS,
                     current |-> counter.count,
                     limit |-> rule.requests_per_period],
            counters |-> DictSet(ctrs, ck, counter)]
      ELSE LET a == FixedAllow(counter, rule, cost, nowS)
           IN  [ret |-> a.ret, counters |-> DictSet(ctrs, ck, a.counter)]

(***************************************************************************)
(* _check_sliding_window                                                   *)
(***************************************************************************)
InWindowInclusive(ts, t, rule) ==
  ts >= t - rule.period_seconds * TicksPerSec

InWindow(ts, t, rule) == ts > t - rule.period_seconds * TicksPerSec

Prune(timestamps, t, rule) ==
  SelectSeq(timestamps, LAMBDA ts : InWindow(ts, t, rule))

SlidingAppendOnce(timestamps, t, cost) == timestamps \o <<t>>

SlidingAppend(timestamps, t, cost) == timestamps \o Repeat(t, cost)

CheckSlidingWindow(ck, rule, cost, t, ctrs) ==
  LET period == rule.period_seconds * TicksPerSec
      c0 == IF ck \notin DOMAIN ctrs
            THEN DictSet(ctrs, ck, [timestamps |-> << >>, count |-> 0])
            ELSE ctrs
  IN  IF "timestamps" \notin DOMAIN c0[ck]
      THEN [ret |-> Raise("KeyError"), counters |-> c0]
      ELSE
      LET kept == Prune(c0[ck].timestamps, t, rule)
          count == Len(kept)
      IN  IF OverQuota(count, cost, rule)
          THEN LET oldest_request == IF kept # << >> THEN SeqMin(kept) ELSE t
                   reset_in == oldest_request + period - t
               IN  [ret |-> [allowed |-> FALSE,
                             reason |-> "rate_limit_exceeded",
                             reset_in |-> Max(0, reset_in),
                             current |-> count,
                             limit |-> rule.requests_per_period],
                    counters |-> DictSet(c0, ck,
                                   [timestamps |-> kept, count |-> count])]
          ELSE LET added == SlidingAppend(kept, t, cost)
                   new_count == count + cost
                   next_reset == IF added # << >>
                                 THEN SeqMin(added) + period
                                 ELSE t + period
                   remaining == IF added # << >>
                                THEN rule.requests_per_period - new_count
                                ELSE rule.requests_per_period
               IN  [ret |-> [allowed |-> TRUE,
                             remaining |-> remaining,
                             reset_in |-> next_reset - t],
                    counters |-> DictSet(c0, ck,
                                   [timestamps |-> added,
                                    count |-> new_count])]

(***************************************************************************)
(* _check_token_bucket                                                     *)
(***************************************************************************)
\* rule.burst_limit or rule.requests_per_period
CapacityQuota(rule) == rule.requests_per_period

Capacity(rule) == PyOr(rule.burst_limit, rule.requests_per_period)

\* time_passed * (rule.requests_per_period / rule.period_seconds), in 1/Scale
RateAmount(time_passed, rule) ==
  time_passed * rule.requests_per_period * (PeriodLcm \div rule.period_seconds)

\* amount / (rule.requests_per_period / rule.period_seconds), in seconds
TimeForHalf(amount, rule) ==
  Frac(amount * rule.period_seconds, 2 * Scale * rule.requests_per_period)

TimeFor(amount, rule) ==
  Frac(amount * rule.period_seconds, Scale * rule.requests_per_period)

RefillUncapped(counter, rule, t) ==
  counter.tokens + RateAmount(t - counter.last_update, rule)

Refill(counter, rule, t) ==
  Min(Capacity(rule) * Scale,
      counter.tokens + RateAmount(t - counter.last_update, rule))

\* (rule.burst_limit or rule.requests_per_period - counter['tokens']) / refill_rate
TimeToFull(rule, tokens) ==
  TimeFor(IF Truthy(rule.burst_limit)
          THEN rule.burst_limit * Scale
          ELSE rule.requests_per_period * Scale - tokens, rule)

TokenConsumeLost(tokens, cost) == tokens - Scale

TokenConsume(tokens, cost) == tokens - cost * Scale

\* cost > counter['tokens']
InsufficientTokensNever(cost, tokens) == FALSE

InsufficientTokens(cost, tokens) == cost * Scale > tokens

\* the deny branch (lines 221-232) returns without assigning to the counter
TokenDeniedDrained(refilled, cost) == [refilled EXCEPT !.tokens = 0]

TokenDenied(refilled, cost) == refilled

CheckTokenBucket(ck, rule, cost, t, ctrs) ==
  LET c0 == IF ck \notin DOMAIN ctrs
            THEN DictSet(ctrs, ck, [tokens |-> Capacity(rule) * Scale,
                                    last_update |-> t])
            ELSE ctrs
  IN  IF "last_update" \notin DOMAIN c0[ck]
      THEN [ret |-> Raise("KeyError"), counters |-> c0]
      ELSE IF rule.period_seconds = 0
      THEN [ret |-> Raise("ZeroDivisionError"), counters |-> c0]
      ELSE
      LET tokens == Refill(c0[ck], rule, t)
          refilled == [c0[ck] EXCEPT !.tokens = tokens, !.last_update = t]
          c1 == DictSet(c0, ck, refilled)
      IN  IF InsufficientTokens(cost, tokens)
          THEN IF rule.requests_per_period = 0
               THEN [ret |-> Raise("ZeroDivisionError"), counters |-> c1]
               ELSE [ret |-> [allowed |-> FALSE,
                              reason |-> "insufficient_tokens",
                              wait_time |-> TimeFor(cost * Scale - tokens, rule),
                              current_tokens |-> tokens,
                              tokens_needed |-> cost],
                     counters |-> DictSet(c0, ck, TokenDenied(refilled, cost))]
          ELSE LET left == TokenConsume(tokens, cost)
                   c2 == DictSet(c0, ck, [refilled EXCEPT !.tokens = left])
               IN  IF rule.requests_per_period = 0
                   THEN [ret |-> Raise("ZeroDivisionError"), counters |-> c2]
                   ELSE [ret |-> [allowed |-> TRUE,
                                  tokens_remaining |-> left,
                                  refill_rate |-> Frac(rule.requests_per_period,
                                                       rule.period_seconds),
                                  time_to_full |-> TimeToFull(rule, left)],
                         counters |-> c2]

(***************************************************************************)
(* _check_leaky_bucket                                                     *)
(***************************************************************************)
LeakNothing(counter, rule, t) == counter.water_level

Leak(counter, rule, t) ==
  Max(0, counter.water_level - RateAmount(t - counter.last_leak, rule))

\* counter['water_level'] + cost > counter['capacity']
OverflowsAtCapacity(level, cost, counter, rule) ==
  level + cost * Scale >= counter.capacity * Scale

Overflows(level, cost, counter, rule) ==
  level + cost * Scale > counter.capacity * Scale

\* counter['water_level'] += cost
LeakyFillTwice(level, cost) == level + 2 * cost * Scale

LeakyFill(level, cost) == level + cost * Scale

CheckLeakyBucket(ck, rule, cost, t, ctrs) ==
  LET c0 == IF ck \notin DOMAIN ctrs
            THEN DictSet(ctrs, ck, [water_level |-> 0, last_leak |-> t,
                                    capacity |-> Capacity(rule)])
            ELSE ctrs
  IN  IF "last_leak" \notin DOMAIN c0[ck]
      THEN [ret |-> Raise("KeyError"), counters |-> c0]
      ELSE IF rule.period_seconds = 0
      THEN [ret |-> Raise("ZeroDivisionError"), counters |-> c0]
      ELSE
      LET level == Leak(c0[ck], rule, t)
          leaked == [c0[ck] EXCEPT !.water_level = level, !.last_leak = t]
          c1 == DictSet(c0, ck, leaked)
      IN  IF Overflows(level, cost, leaked, rule)
          THEN IF rule.requests_per_period = 0
               THEN [ret |-> Raise("ZeroDivisionError"), counters |-> c1]
               ELSE [ret |-> [allowed |-> FALSE,
                              reason |-> "bucket_overflow",
                              wait_time |-> TimeFor(level + cost * Scale
                                              - leaked.capacity * Scale, rule),
                              current_level |-> level,
                              capacity |-> leaked.capacity],
                     counters |-> c1]
          ELSE LET filled == LeakyFill(level, cost)
                   c2 == DictSet(c0, ck, [leaked EXCEPT !.water_level = filled])
               IN  IF rule.requests_per_period = 0
                   THEN [ret |-> Raise("ZeroDivisionError"), counters |-> c2]
                   ELSE [ret |-> [allowed |-> TRUE,
                                  water_level |-> filled,
                                  drain_time |-> TimeFor(filled, rule),
                                  capacity_remaining |->
                                    leaked.capacity * Scale - filled],
                         counters |-> c2]

(***************************************************************************)
(* Inputs of the model                                                     *)
(***************************************************************************)
Procs == 1 .. NumProcs
Costs == 0 .. MaxCost
\* keys the caller registers rules for, and all keys it checks
RuleKeys == {"user:message"}
Keys == RuleKeys \cup {"user:command"}
Identifiers == {"1"}

\* default of the parameter `cost` of check_limit
DefaultCost == 1

ValidRules ==
  { RateLimitRule(FIXED_WINDOW, 2, 1, None, 1),
    RateLimitRule(FIXED_WINDOW, 3, 2, 2, 2),
    RateLimitRule(SLIDING_WINDOW, 2, 1, None, 1),
    RateLimitRule(SLIDING_WINDOW, 3, 2, 2, 2),
    RateLimitRule(TOKEN_BUCKET, 1, 2, 2, 1),
    RateLimitRule(TOKEN_BUCKET, 2, 1, None, 2),
    RateLimitRule(LEAKY_BUCKET, 1, 1, 2, 1),
    RateLimitRule(LEAKY_BUCKET, 1, 2, None, 2) }

InvalidRules ==
  { RateLimitRule(FIXED_WINDOW, 2, 0, None, 1),
    RateLimitRule(TOKEN_BUCKET, 0, 1, None, 1) }

RuleChoices == ValidRules \cup InvalidRules

(***************************************************************************)
(* RateLimiter.__init__                                                    *)
(***************************************************************************)
Idle == [at |-> "idle"]

Init ==
  /\ rules = << >>
  /\ counters = << >>
  /\ locks = << >>
  /\ now = 0
  /\ pc = [p \in Procs |-> Idle]
  /\ call = [op |-> "init"]
  /\ ret = [value |-> "None"]
  /\ log = << >>

AllIdle == \A p \in Procs : pc[p].at = "idle"

(***************************************************************************)
(* add_rule                                                                *)
(***************************************************************************)
AddRuleReset(key, rule) ==
  /\ AllIdle
  /\ rules' = DictSet(rules, key, rule)
  /\ call' = [op |-> "add_rule", key |-> key, rule |-> rule]
  /\ ret' = [value |-> "None"]
  /\ counters' = << >>
  /\ UNCHANGED <<locks, now, pc>>

AddRule(key, rule) ==
  /\ AllIdle
  /\ rules' = DictSet(rules, key, rule)
  /\ call' = [op |-> "add_rule", key |-> key, rule |-> rule]
  /\ ret' = [value |-> "None"]
  /\ UNCHANGED <<counters, locks, now, pc>>

(***************************************************************************)
(* check_limit                                                             *)
(***************************************************************************)
NoRuleDenied == [allowed |-> FALSE, reason |-> "no_rule"]

NoRuleResult == [allowed |-> TRUE, reason |-> "no_rule"]

\* lock_key = f"{key}:{identifier}"
LockKey(key, identifier) == CounterKey(key, identifier)

\* asyncio.Lock.acquire proceeds when the lock is not held;
\* self.locks is a defaultdict, a missing lock is created unlocked
AlwaysAcquire(lk) == TRUE

CanAcquire(lk) == IF lk \in DOMAIN locks THEN ~locks[lk] ELSE TRUE

DispatchSlidingBurst(key, identifier, rule, cost, t, ctrs) ==
  LET ck == CounterKey(key, identifier)
  IN  CASE rule.strategy = FIXED_WINDOW ->
             CheckFixedWindow(ck, rule, cost, t, ctrs)
        [] rule.strategy = SLIDING_WINDOW ->
             CheckSlidingWindow(ck,
               [rule EXCEPT !.requests_per_period =
                  PyOr(rule.burst_limit, rule.requests_per_period)],
               cost, t, ctrs)
        [] rule.strategy = TOKEN_BUCKET ->
             CheckTokenBucket(ck, rule, cost, t, ctrs)
        [] rule.strategy = LEAKY_BUCKET ->
             CheckLeakyBucket(ck, rule, cost, t, ctrs)

Dispatch(key, identifier, rule, cost, t, ctrs) ==
  LET ck == CounterKey(key, identifier)
  IN  CASE rule.strategy = FIXED_WINDOW ->
             CheckFixedWindow(ck, rule, cost, t, ctrs)
        [] rule.strategy = SLIDING_WINDOW ->
             CheckSlidingWindow(ck, rule, cost, t, ctrs)
        [] rule.strategy = TOKEN_BUCKET ->
             CheckTokenBucket(ck, rule, cost, t, ctrs)
        [] rule.strategy = LEAKY_BUCKET ->
             CheckLeakyBucket(ck, rule, cost, t, ctrs)

CheckCall(p, key, identifier, cost, given) ==
  [op |-> "check_limit", proc |-> p, key |-> key, identifier |-> identifier,
   cost |-> cost, given |-> given, t |-> now]

CheckBeginGuarded(p, key, identifier, cost, given) ==
  /\ pc[p].at = "idle"
  /\ IF key \notin DOMAIN rules
     THEN /\ ret' = NoRuleResult
          /\ call' = CheckCall(p, key, identifier, cost, given)
          /\ locks' = DictSet(locks, LockKey(key, identifier), FALSE)
          /\ UNCHANGED pc
     ELSE /\ pc' = [pc EXCEPT ![p] =
                      [at |-> "acquire", key |-> key,
                       identifier |-> identifier, cost |-> cost,
                       given |-> given, rule |-> rules[key]]]
          /\ UNCHANGED <<call, ret, locks>>
  /\ UNCHANGED <<rules, counters, now>>

\* lines 84-88: the rule lookup; `given` tells whether the caller passed cost
CheckBegin(p, key, identifier, cost, given) ==
  /\ pc[p].at = "idle"
  /\ IF key \notin DOMAIN rules
     THEN /\ ret' = NoRuleResult
          /\ call' = CheckCall(p, key, identifier, cost, given)
          /\ UNCHANGED pc
     ELSE /\ pc' = [pc EXCEPT ![p] =
                      [at |-> "acquire", key |-> key,
                       identifier |-> identifier, cost |-> cost,
                       given |-> given, rule |-> rules[key]]]
          /\ UNCHANGED <<call, ret>>
  /\ UNCHANGED <<rules, counters, locks, now>>

\* line 90: async with self.locks[lock_key], entry
Acquire(p) ==
  /\ pc[p].at = "acquire"
  /\ CanAcquire(LockKey(pc[p].key, pc[p].identifier))
  /\ locks' = DictSet(locks, LockKey(pc[p].key, pc[p].identifier), TRUE)
  /\ pc' = [pc EXCEPT ![p].at = "crit"]
  /\ UNCHANGED <<rules, counters, now, call, ret>>

\* lines 91-98: the strategy's check, then the exit of the async with
CheckBody(p) ==
  /\ pc[p].at = "crit"
  /\ LET r == Dispatch(pc[p].key, pc[p].identifier, pc[p].rule,
                       pc[p].cost, now, counters)
     IN  /\ counters' = r.counters
         /\ ret' = r.ret
  /\ call' = CheckCall(p, pc[p].key, pc[p].identifier, pc[p].cost,
                       pc[p].given)
  /\ locks' = DictSet(locks, LockKey(pc[p].key, pc[p].identifier), FALSE)
  /\ pc' = [pc EXCEPT ![p] = Idle]
  /\ UNCHANGED <<rules, now>>

(***************************************************************************)
(* reset_limit, cleanup_old_entries                                        *)
(***************************************************************************)
ResetLimitKeep(key, identifier) ==
  /\ AllIdle
  /\ counters' = counters
  /\ call' = [op |-> "reset_limit", key |-> key, identifier |-> identifier]
  /\ ret' = [value |-> "None"]
  /\ UNCHANGED <<rules, locks, now, pc>>

ResetLimit(key, identifier) ==
  /\ AllIdle
  /\ counters' = IF CounterKey(key, identifier) \in DOMAIN counters
                 THEN DictDel(counters, CounterKey(key, identifier))
                 ELSE counters
  /\ call' = [op |-> "reset_limit", key |-> key, identifier |-> identifier]
  /\ ret' = [value |-> "None"]
  /\ UNCHANGED <<rules, locks, now, pc>>

\* now - counter[field] > max_age_seconds
ExpiredAtAge(counter, t, max_age_seconds) ==
  \/ /\ "last_update" \in DOMAIN counter
     /\ t - counter.last_update >= max_age_seconds * TicksPerSec
  \/ /\ "last_update" \notin DOMAIN counter
     /\ "last_leak" \in DOMAIN counter
     /\ t - counter.last_leak >= max_age_seconds * TicksPerSec

Expired(counter, t, max_age_seconds) ==
  \/ /\ "last_update" \in DOMAIN counter
     /\ t - counter.last_update > max_age_seconds * TicksPerSec
  \/ /\ "last_update" \notin DOMAIN counter
     /\ "last_leak" \in DOMAIN counter
     /\ t - counter.last_leak > max_age_seconds * TicksPerSec

CleanupOldEntriesEvict(max_age_seconds) ==
  /\ AllIdle
  /\ counters' = [k \in {j \in DOMAIN counters :
                           ~Expired(counters[j], now, max_age_seconds)}
                    |-> counters[k]]
  /\ locks' = [k \in {j \in DOMAIN locks :
                        \/ j \notin DOMAIN counters
                        \/ ~Expired(counters[j], now, max_age_seconds)}
                 |-> locks[k]]
  /\ call' = [op |-> "cleanup_old_entries", max_age |-> max_age_seconds,
              t |-> now]
  /\ ret' = [value |-> "None"]
  /\ UNCHANGED <<rules, now, pc>>

CleanupOldEntries(max_age_seconds) ==
  /\ AllIdle
  /\ counters' = [k \in {j \in DOMAIN counters :
                           ~Expired(counters[j], now, max_age_seconds)}
                    |-> counters[k]]
  /\ call' = [op |-> "cleanup_old_entries", max_age |-> max_age_seconds,
              t |-> now]
  /\ ret' = [value |-> "None"]
  /\ UNCHANGED <<rules, locks, now, pc>>

(***************************************************************************)
(* get_usage, get_global_stats                                             *)
(***************************************************************************)
\* counter.get(field, default)
GetDefault(counter, field, default) == default

Get(counter, field, default) ==
  IF field \in DOMAIN counter THEN counter[field] ELSE default

\* window_reset is in ticks
UsageInfo(key, identifier, rule, counter, t) ==
  LET info == [key |-> key, identifier |-> identifier,
               strategy |-> rule.strategy,
               limit |-> rule.requests_per_period,
               period |-> rule.period_seconds]
  IN  CASE rule.strategy = FIXED_WINDOW ->
             info @@ [current_count |-> Get(counter, "count", 0),
                      window_reset |->
                        Get(counter, "reset_time", 0) * TicksPerSec - t]
        [] rule.strategy = SLIDING_WINDOW ->
             info @@ [current_count |-> Get(counter, "count", 0),
                      request_timestamps |->
                        Get(counter, "timestamps", << >>)]
        [] rule.strategy = TOKEN_BUCKET ->
             info @@ [tokens |-> Get(counter, "tokens", 0),
                      burst_limit |-> rule.burst_limit]
        [] rule.strategy = LEAKY_BUCKET ->
             info @@ [water_level |-> Get(counter, "water_level", 0),
                      capacity |-> Get(counter, "capacity", 0)]

GetUsage(key, identifier) ==
  /\ AllIdle
  /\ ret' = IF \/ CounterKey(key, identifier) \notin DOMAIN counters
               \/ key \notin DOMAIN rules
            THEN [value |-> "None"]
            ELSE UsageInfo(key, identifier, rules[key],
                           counters[CounterKey(key, identifier)], now)
  /\ call' = [op |-> "get_usage", key |-> key, identifier |-> identifier,
              t |-> now]
  /\ UNCHANGED <<rules, counters, locks, now, pc>>

RECURSIVE SumCounts(_, _)
SumCounts(ctrs, ks) ==
  IF ks = {} THEN 0
  ELSE LET k == CHOOSE j \in ks : TRUE
       IN  ctrs[k].count + SumCounts(ctrs, ks \ {k})

\* memory_usage, the length of str(self.counters), is not modelled
GlobalStatsAll(ctrs, rls) ==
  LET counted == {k \in DOMAIN ctrs : "count" \in DOMAIN ctrs[k]}
  IN  [total_requests_tracked |-> SumCounts(ctrs, counted),
       active_rate_limits |-> Cardinality(DOMAIN ctrs),
       total_rules |-> Cardinality(DOMAIN rls)]

GlobalStats(ctrs, rls) ==
  LET counted == {k \in DOMAIN ctrs : "count" \in DOMAIN ctrs[k]}
  IN  [total_requests_tracked |-> SumCounts(ctrs, counted),
       active_rate_limits |-> Cardinality(counted),
       total_rules |-> Cardinality(DOMAIN rls)]

GetGlobalStats ==
  /\ AllIdle
  /\ ret' = GlobalStats(counters, rules)
  /\ call' = [op |-> "get_global_stats"]
  /\ UNCHANGED <<rules, counters, locks, now, pc>>

(***************************************************************************)
(* time.time() advancing                                                   *)
(***************************************************************************)
\* d ticks pass between two calls, up to the horizon of the run
Advance(d, horizon) ==
  /\ AllIdle
  /\ now + d <= horizon
  /\ now' = now + d
  /\ UNCHANGED <<rules, counters, locks, pc, call, ret>>

Tick == Advance(1, MaxTime)

(***************************************************************************)
(* One caller that awaits each call before the next                        *)
(***************************************************************************)
MaxAges == {0, 1}

Next ==
  \/ \E k \in RuleKeys, r \in RuleChoices : AddRule(k, r) /\ UNCHANGED log
  \/ \E k \in Keys, i \in Identifiers, c \in Costs :
       CheckBegin(1, k, i, c, TRUE) /\ UNCHANGED log
  \/ \E k \in Keys, i \in Identifiers :
       CheckBegin(1, k, i, DefaultCost, FALSE) /\ UNCHANGED log
  \/ Acquire(1) /\ UNCHANGED log
  \/ CheckBody(1) /\ UNCHANGED log
  \/ \E k \in Keys, i \in Identifiers : ResetLimit(k, i) /\ UNCHANGED log
  \/ \E a \in MaxAges : CleanupOldEntries(a) /\ UNCHANGED log
  \/ \E k \in Keys, i \in Identifiers : GetUsage(k, i) /\ UNCHANGED log
  \/ GetGlobalStats /\ UNCHANGED log
  \/ Tick /\ UNCHANGED log

Spec == Init /\ [][Next]_vars

(***************************************************************************)
(* Concurrent callers: rules are registered once, before the checks; then  *)
(* up to NumProcs check_limit calls are in flight at one instant.  The log *)
(* records the checks in the order in which their bodies ran.              *)
(***************************************************************************)
ConcIdentifiers == {"1", "2"}
ConcCosts == {1, 2}

\* every caller makes one call
MaxCalls == NumProcs

ConcRules ==
  { RateLimitRule(FIXED_WINDOW, 3, 2, 2, 2),
    RateLimitRule(SLIDING_WINDOW, 2, 1, None, 1),
    RateLimitRule(TOKEN_BUCKET, 1, 2, 2, 1),
    RateLimitRule(LEAKY_BUCKET, 1, 2, None, 2) }

InFlight == {p \in Procs : pc[p].at # "idle"}

LogEntry(p) ==
  [key |-> pc[p].key, identifier |-> pc[p].identifier, cost |-> pc[p].cost,
   allowed |-> ret'.allowed]

NextConc ==
  \/ \E k \in RuleKeys, r \in ConcRules :
       /\ k \notin DOMAIN rules
       /\ AddRule(k, r)
       /\ UNCHANGED log
  \/ \E p \in Procs, k \in Keys, i \in ConcIdentifiers, c \in ConcCosts :
       /\ Len(log) + Cardinality(InFlight) < MaxCalls
       /\ CheckBegin(p, k, i, c, TRUE)
       /\ UNCHANGED log
  \/ \E p \in Procs : Acquire(p) /\ UNCHANGED log
  \/ \E p \in Procs : CheckBody(p) /\ log' = Append(log, LogEntry(p))

SpecConc == Init /\ [][NextConc]_vars

(***************************************************************************)
(* The worked examples: one rule is registered, one identifier is checked  *)
(* by one caller, the waits between the checks are those of the examples.  *)
(* The log records every check: its time, its cost and what it returned.   *)
(***************************************************************************)
SlidingExample == RateLimitRule(SLIDING_WINDOW, 3, 60, None, 1)
TokenExample == RateLimitRule(TOKEN_BUCKET, 10, 60, 10, 1)
LeakyExample == RateLimitRule(LEAKY_BUCKET, 5, 10, None, 1)

ExampleRules ==
  { RateLimitRule(FIXED_WINDOW, 3, 2, 2, 1),
    RateLimitRule(FIXED_WINDOW, 2, 2, None, 1),
    SlidingExample,
    RateLimitRule(SLIDING_WINDOW, 2, 10, None, 1),
    RateLimitRule(SLIDING_WINDOW, 1, 10, None, 1),
    TokenExample,
    RateLimitRule(TOKEN_BUCKET, 10, 60, None, 1),
    RateLimitRule(TOKEN_BUCKET, 10, 60, 20, 1),
    LeakyExample }

\* seconds between two checks, seconds after which the run ends, and the
\* number of checks of a run
ExampleWaits(rule) ==
  CASE rule.strategy = SLIDING_WINDOW -> {10, 51}
    [] rule.strategy = TOKEN_BUCKET -> {6}
    [] OTHER -> {2}

ExampleHorizon(rule) ==
  CASE rule.strategy = SLIDING_WINDOW -> 61
    [] rule.strategy = TOKEN_BUCKET -> 6
    [] OTHER -> 2

ExampleCalls(rule) ==
  CASE rule.strategy = SLIDING_WINDOW -> 5
    [] rule.strategy = TOKEN_BUCKET -> 12
    [] OTHER -> 7

ExampleCosts == {1, 2}

Registered == rules[CHOOSE k \in DOMAIN rules : TRUE]

Logged(p) == [t |-> now, cost |-> pc[p].cost, ret |-> ret']

NextExample ==
  \/ \E k \in RuleKeys, r \in ExampleRules :
       /\ DOMAIN rules = {}
       /\ AddRule(k, r)
       /\ UNCHANGED log
  \/ \E k \in RuleKeys, c \in ExampleCosts :
       /\ k \in DOMAIN rules
       /\ Len(log) < ExampleCalls(rules[k])
       /\ CheckBegin(1, k, "1", c, TRUE)
       /\ UNCHANGED log
  \/ Acquire(1) /\ UNCHANGED log
  \/ CheckBody(1) /\ log' = Append(log, Logged(1))
  \/ /\ DOMAIN rules # {}
     /\ \E d \in ExampleWaits(Registered) :
          Advance(d * TicksPerSec, ExampleHorizon(Registered) * TicksPerSec)
     /\ UNCHANGED log

SpecExample == Init /\ [][NextExample]_vars

(***************************************************************************)
(* Several pairs: one caller uses two rule keys and two identifiers, one   *)
(* of each containing ':', makes up to MaxPairCalls checks within one      *)
(* second and sweeps, resets, re-registers and reads statistics in         *)
(* between.  The log counts the checks.                                    *)
(***************************************************************************)
PairKeys == {"user", "user:message"}
PairIdentifiers == {"1", "message:1"}

\* the rules the caller registers for a key
PairRules(key) ==
  IF key = "user"
  THEN { RateLimitRule(FIXED_WINDOW, 2, 1, None, 1),
         RateLimitRule(TOKEN_BUCKET, 1, 2, 2, 1) }
  ELSE { RateLimitRule(SLIDING_WINDOW, 2, 1, None, 1),
         RateLimitRule(LEAKY_BUCKET, 1, 2, None, 2) }

MaxPairCalls == NumProcs

NextPairs ==
  \/ \E k \in PairKeys : \E r \in PairRules(k) :
       AddRule(k, r) /\ UNCHANGED log
  \/ \E k \in PairKeys, i \in PairIdentifiers :
       /\ Len(log) < MaxPairCalls
       /\ CheckBegin(1, k, i, DefaultCost, FALSE)
       /\ log' = Append(log, "check_limit")
  \/ Acquire(1) /\ UNCHANGED log
  \/ CheckBody(1) /\ UNCHANGED log
  \/ \E k \in PairKeys, i \in PairIdentifiers :
       ResetLimit(k, i) /\ UNCHANGED log
  \/ \E a \in MaxAges : CleanupOldEntries(a) /\ UNCHANGED log
  \/ GetGlobalStats /\ UNCHANGED log
  \/ Advance(1, TicksPerSec) /\ UNCHANGED log

SpecPairs == Init /\ [][NextPairs]_vars

(***************************************************************************)
(* The bot's handlers (bot_core.py).  RoastifyBot.__init__ constructs the  *)
(* limiter with RateLimiter() and registers no rule; add_default_rules is  *)
(* an operation of the limiter the start-up code may call.  A handler      *)
(* awaits check_limit with the arguments it passes and tests the result    *)
(* with `if not`.                                                          *)
(***************************************************************************)
DefaultRules ==
  [k \in {"user:message", "user:command", "group:message", "api:requests",
          "user:image"} |->
     CASE k = "user:message" -> RateLimitRule(SLIDING_WINDOW, 30, 60, 50, 1)
       [] k = "user:command" -> RateLimitRule(TOKEN_BUCKET, 10, 60, 20, 1)
       [] k = "group:message" -> RateLimitRule(FIXED_WINDOW, 100, 60, None, 1)
       [] k = "api:requests" ->
            RateLimitRule(LEAKY_BUCKET, 1000, 3600, 2000, 1)
       [] k = "user:image" -> RateLimitRule(SLIDING_WINDOW, 20, 3600, None, 1)]

AddDefaultRules ==
  /\ AllIdle
  /\ rules' = DefaultRules @@ rules
  /\ call' = [op |-> "add_default_rules"]
  /\ ret' = [value |-> "None"]
  /\ UNCHANGED <<counters, locks, now, pc>>

\* user.id, message.from_user.id
BotUsers == {"1", "2"}

\* the binding of the positional arguments of a call to
\* check_limit(key, identifier, cost=1): TypeError when `identifier` is missing
BindCheckLimit(args) ==
  IF Len(args) < 2
  THEN Raise("TypeError")
  ELSE [key |-> args[1], identifier |-> args[2],
        cost |-> IF Len(args) >= 3 THEN args[3] ELSE DefaultCost]

\* bool() of the tuple (allowed, info) that check_limit returns
TupleTruthy(result) == TRUE

\* `if not await self.rate_limiter.check_limit(*args)`: the handler stops when
\* the result is false, proceeds when it is true, and is left by the
\* exception when the call raises
Gate(handler, args) ==
  /\ AllIdle
  /\ LET b == BindCheckLimit(args)
         done(r) == [op |-> handler, args |-> args,
                     outcome |-> IF "error" \in DOMAIN r THEN "raised"
                                 ELSE IF TupleTruthy(r) THEN "proceeded"
                                 ELSE "stopped"]
     IN  IF "error" \in DOMAIN b
         THEN /\ ret' = b
              /\ call' = done(b)
              /\ UNCHANGED <<counters, locks>>
         ELSE IF b.key \notin DOMAIN rules
         THEN /\ ret' = NoRuleResult
              /\ call' = done(NoRuleResult)
              /\ UNCHANGED <<counters, locks>>
         ELSE LET r == Dispatch(b.key, b.identifier, rules[b.key], b.cost,
                                now, counters)
              IN  /\ counters' = r.counters
                  /\ locks' = DictSet(locks, LockKey(b.key, b.identifier),
                                      FALSE)
                  /\ ret' = r.ret
                  /\ call' = done(r.ret)
  /\ UNCHANGED <<rules, now, pc>>

\* bot_core.py line 177
CommandStart(user) == Gate("command_start", <<"start:" \o user>>)

\* bot_core.py lines 441-459; `passes` tells whether the text passes the
\* length, digit and emoji tests that come before the limiter
ShouldProcessMessage(user, passes) ==
  IF passes
  THEN Gate("should_process_message", <<"message:" \o user>>)
  ELSE /\ AllIdle
       /\ call' = [op |-> "should_process_message", args |-> << >>,
                   outcome |-> "filtered"]
       /\ ret' = [value |-> FALSE]
       /\ UNCHANGED <<rules, counters, locks, now, pc>>

\* the handlers run for up to MaxCalls updates; the log keeps their outcomes
NextBot ==
  \/ AddDefaultRules /\ UNCHANGED log
  \/ \E u \in BotUsers :
       /\ Len(log) < MaxCalls
       /\ CommandStart(u)
       /\ log' = Append(log, call')
  \/ \E u \in BotUsers, passes \in BOOLEAN :
       /\ Len(log) < MaxCalls
       /\ ShouldProcessMessage(u, passes)
       /\ log' = Append(log, call')
  \/ Tick /\ UNCHANGED log

SpecBot == Init /\ [][NextBot]_vars

(***************************************************************************)
(* Properties                                                              *)
(***************************************************************************)
IsCheck == call.op = "check_limit"
Returned == "allowed" \in DOMAIN ret
Raised == "error" \in DOMAIN ret

\* C5: a check_limit for a rule key that has no registered rule returns
\* allowed = true with reason "no_rule", whatever the identifier and the
\* cost, in every reachable state.
C5_NoRuleAllowed ==
  (IsCheck /\ call.key \notin DOMAIN rules)
    => ret = [allowed |-> TRUE, reason |-> "no_rule"]

C5_Witness ==
  /\ IsCheck
  /\ call.key \notin DOMAIN rules
  /\ call.cost = MaxCost
  /\ ret = [allowed |-> TRUE, reason |-> "no_rule"]
  /\ DOMAIN rules # {}
  /\ DOMAIN counters # {}

(***************************************************************************)
(* The step of a check_limit call that runs the strategy's check, and the  *)
(* usage of the pair as the limit test of that step sees it.               *)
(***************************************************************************)
BodyStep(p) == pc[p].at = "crit" /\ pc'[p].at = "idle"

ValidRule(rule) ==
  rule.requests_per_period > 0 /\ rule.period_seconds > 0

PairKey(p) == pc[p].key \o ":" \o pc[p].identifier
HasCounter(p) == PairKey(p) \in DOMAIN counters
Stored(p) == counters[PairKey(p)]
StoredAfter(p) == counters'[PairKey(p)]

\* the counter of the pair is absent or has the fields of the rule's strategy
WellShaped(p) ==
  \/ ~HasCounter(p)
  \/ pc[p].rule.strategy = FIXED_WINDOW
  \/ pc[p].rule.strategy = SLIDING_WINDOW /\ "timestamps" \in DOMAIN Stored(p)
  \/ pc[p].rule.strategy = TOKEN_BUCKET /\ "tokens" \in DOMAIN Stored(p)
  \/ pc[p].rule.strategy = LEAKY_BUCKET /\ "water_level" \in DOMAIN Stored(p)

InScope(p, strategy) ==
  /\ BodyStep(p)
  /\ pc[p].rule.strategy = strategy
  /\ ValidRule(pc[p].rule)
  /\ WellShaped(p)

Boundary(p) ==
  LET s == now \div TicksPerSec
  IN  (s \div pc[p].rule.period_seconds) * pc[p].rule.period_seconds

SameWindow(p) ==
  /\ HasCounter(p)
  /\ "window" \in DOMAIN Stored(p)
  /\ Stored(p).window = Boundary(p)

\* per second rate times elapsed ticks, in 1/Scale
Flow(p, since) ==
  ((now - since) * pc[p].rule.requests_per_period * Scale)
    \div (pc[p].rule.period_seconds * TicksPerSec)

RuleCapacity(rule) ==
  IF rule.burst_limit # None THEN rule.burst_limit
  ELSE rule.requests_per_period

PreCount(p) == IF SameWindow(p) THEN Stored(p).count ELSE 0

PreUnits(p) ==
  IF HasCounter(p)
  THEN Cardinality({i \in DOMAIN Stored(p).timestamps :
         Stored(p).timestamps[i]
           > now - pc[p].rule.period_seconds * TicksPerSec})
  ELSE 0

PreTokens(p) ==
  IF HasCounter(p)
  THEN LET v == Stored(p).tokens + Flow(p, Stored(p).last_update)
           cap == RuleCapacity(pc[p].rule) * Scale
       IN  IF v > cap THEN cap ELSE v
  ELSE RuleCapacity(pc[p].rule) * Scale

PreLevel(p) ==
  IF HasCounter(p)
  THEN LET v == Stored(p).water_level - Flow(p, Stored(p).last_leak)
       IN  IF v < 0 THEN 0 ELSE v
  ELSE 0

PreCapacity(p) ==
  IF HasCounter(p) THEN Stored(p).capacity ELSE RuleCapacity(pc[p].rule)

AllowedAfter == "allowed" \in DOMAIN ret' /\ ret'.allowed

\* C3 as stated: a cost within the quota (requests_per_period, bucket
\* capacity) left before the check is allowed and charged exactly.  It does
\* not hold for a fixed window whose count has reached burst_limit.
C3_WithinQuota(p, burstAware) ==
  /\ InScope(p, FIXED_WINDOW)
       => ((/\ PreCount(p) + pc[p].cost <= pc[p].rule.requests_per_period
            /\ burstAware => (\/ pc[p].rule.burst_limit = None
                              \/ PreCount(p) < pc[p].rule.burst_limit))
           => /\ AllowedAfter
              /\ StoredAfter(p).count = PreCount(p) + pc[p].cost)
  /\ InScope(p, SLIDING_WINDOW)
       => (PreUnits(p) + pc[p].cost <= pc[p].rule.requests_per_period
           => /\ AllowedAfter
              /\ StoredAfter(p).count = PreUnits(p) + pc[p].cost)
  /\ InScope(p, TOKEN_BUCKET)
       => (pc[p].cost * Scale <= PreTokens(p)
           => /\ AllowedAfter
              /\ StoredAfter(p).tokens = PreTokens(p) - pc[p].cost * Scale)
  /\ InScope(p, LEAKY_BUCKET)
       => (PreLevel(p) + pc[p].cost * Scale <= PreCapacity(p) * Scale
           => /\ AllowedAfter
              /\ StoredAfter(p).water_level
                   = PreLevel(p) + pc[p].cost * Scale)

C4_NeverFails ==
  (IsCheck /\ (call.key \in DOMAIN rules => ValidRule(rules[call.key])))
    => Returned

\* C6 as stated: add_rule rejects a rule whose requests_per_period or
\* period_seconds is not positive and leaves the registry unchanged, so the
\* registry only ever holds valid rules and no check divides by zero.
C6_InvalidRuleRejected ==
  /\ (call.op = "add_rule" /\ ~ValidRule(call.rule)) => Raised
  /\ \A k \in DOMAIN rules : ValidRule(rules[k])
  /\ ret # Raise("ZeroDivisionError")

\* what an allowed check charged, in units of cost
Charged(p) ==
  CASE pc[p].rule.strategy = FIXED_WINDOW ->
         StoredAfter(p).count - PreCount(p)
    [] pc[p].rule.strategy = SLIDING_WINDOW ->
         StoredAfter(p).count - PreUnits(p)
    [] pc[p].rule.strategy = TOKEN_BUCKET ->
         (PreTokens(p) - StoredAfter(p).tokens) \div Scale
    [] pc[p].rule.strategy = LEAKY_BUCKET ->
         (StoredAfter(p).water_level - PreLevel(p)) \div Scale

AnyScope(p) ==
  /\ BodyStep(p)
  /\ ValidRule(pc[p].rule)
  /\ WellShaped(p)

\* C7 as stated: when the caller does not pass a cost, an allowed check is
\* charged the rule's cost_per_request.
C7_DefaultIsRuleCost ==
  [][\A p \in Procs :
       (AnyScope(p) /\ ~pc[p].given /\ AllowedAfter)
         => Charged(p) = pc[p].rule.cost_per_request]_vars

\* C8: fixed window, period_seconds > 0: a check made in the window the
\* counter was last used in adds its cost to the stored count when it is
\* allowed and leaves the count alone when it is denied; a check made after
\* the boundary has rolled over (or on a fresh pair) starts from count 0, so
\* the count is then exactly its own cost (0 when denied), and the counter
\* records the window of the check.
C8_FixedWindowAccumulates ==
  [][\A p \in Procs :
       (/\ BodyStep(p)
        /\ pc[p].rule.strategy = FIXED_WINDOW
        /\ pc[p].rule.period_seconds > 0)
         => /\ Returned'
            /\ StoredAfter(p).window = Boundary(p)
            /\ StoredAfter(p).count
                 = (IF SameWindow(p) THEN Stored(p).count ELSE 0)
                   + (IF ret'.allowed THEN pc[p].cost ELSE 0)]_vars

\* an allowed check in a later window than the first: the count is its cost
C8_Witness ==
  /\ IsCheck /\ Returned /\ ret.allowed
  /\ call.key \in DOMAIN rules
  /\ rules[call.key] = RateLimitRule(FIXED_WINDOW, 2, 1, None, 1)
  /\ call.cost = 2
  /\ call.t \div TicksPerSec = 1
  /\ counters[CounterKey(call.key, call.identifier)]
       = [count |-> 2, window |-> 1, reset_time |-> 2]

(***************************************************************************)
(* Sequential reference for checks made at one instant on a fresh pair:    *)
(* u units are in use, a check of cost c is allowed when u + c fits the    *)
(* quota (the bucket capacity), a fixed window also needs u below          *)
(* burst_limit; an allowed check uses c more units.                        *)
(***************************************************************************)
RefAllowed(rule, u, c) ==
  CASE rule.strategy = FIXED_WINDOW ->
         /\ rule.burst_limit = None \/ u < rule.burst_limit
         /\ u + c <= rule.requests_per_period
    [] rule.strategy = SLIDING_WINDOW -> u + c <= rule.requests_per_period
    [] OTHER -> u + c <= RuleCapacity(rule)

\* units in use after the calls h[i..] run one after the other from u units,
\* -1 when a call of h was not answered as the sequential run answers it
RECURSIVE RefRun(_, _, _, _)
RefRun(rule, h, i, u) ==
  IF i > Len(h) THEN u
  ELSE IF h[i].allowed # RefAllowed(rule, u, h[i].cost) THEN -1
  ELSE RefRun(rule, h, i + 1, IF h[i].allowed THEN u + h[i].cost ELSE u)

CallsOf(k, i) ==
  SelectSeq(log, LAMBDA e : e.key = k /\ e.identifier = i)

StoredUsage(rule, counter, u) ==
  CASE rule.strategy = FIXED_WINDOW -> counter.count = u
    [] rule.strategy = SLIDING_WINDOW ->
         counter.count = u /\ Len(counter.timestamps) = u
    [] rule.strategy = TOKEN_BUCKET ->
         counter.tokens = (RuleCapacity(rule) - u) * Scale
    [] rule.strategy = LEAKY_BUCKET -> counter.water_level = u * Scale

\* C1: whatever the interleaving of the concurrent check_limit calls of a
\* pair, every call was answered, and the stored usage is, what running the
\* same calls one after the other (in the order their bodies ran) gives: the
\* usage is the sum of the costs of the allowed calls, also when the calls
\* raced on the check that creates the counter.
C1_Linearizable ==
  \A k \in DOMAIN rules : \A i \in ConcIdentifiers :
    LET h == CallsOf(k, i)
        u == RefRun(rules[k], h, 1, 0)
    IN  /\ u >= 0
        /\ (h # << >>) <=> (CounterKey(k, i) \in DOMAIN counters)
        /\ h # << >> => StoredUsage(rules[k], counters[CounterKey(k, i)], u)

\* three racing calls on one fresh pair, answered allow, allow, deny
C1_Witness ==
  /\ Len(log) = 3
  /\ \A j \in 1 .. 3 : log[j].identifier = "1" /\ log[j].cost = 1
  /\ log[1].allowed /\ log[2].allowed /\ ~log[3].allowed

Pair(p) == <<pc[p].key, pc[p].identifier>>

LockHeld(lk) == lk \in DOMAIN locks /\ locks[lk]

\* C2: two checks of the same pair are never both inside the section the
\* guard protects, and a check waiting for its guard waits for a check of
\* its own pair: when no check of its pair is inside, its guard is free.
C2_SerializedPerPair ==
  /\ \A p, q \in Procs :
       (p # q /\ pc[p].at = "crit" /\ pc[q].at = "crit")
         => Pair(p) # Pair(q)
  /\ \A p \in Procs :
       (/\ pc[p].at = "acquire"
        /\ \A q \in Procs : pc[q].at = "crit" => Pair(q) # Pair(p))
         => ~LockHeld(pc[p].key \o ":" \o pc[p].identifier)

\* two checks of different pairs inside at once, a third waits for its pair
C2_Witness ==
  \E p, q, r \in Procs :
    /\ pc[p].at = "crit" /\ pc[q].at = "crit" /\ pc[r].at = "acquire"
    /\ Pair(p) # Pair(q)
    /\ Pair(r) = Pair(p)

(***************************************************************************)
(* Worked examples                                                         *)
(***************************************************************************)
Sec(n) == n * TicksPerSec

\* the first n checks of the run were made at the times `times` (seconds)
\* with cost 1
RunIs(times, n) ==
  /\ Len(log) >= n
  /\ \A j \in 1 .. n : log[j].t = Sec(times[j]) /\ log[j].cost = 1

Allowed(j) == "allowed" \in DOMAIN log[j].ret /\ log[j].ret.allowed

Denied(j, reason) ==
  /\ "allowed" \in DOMAIN log[j].ret
  /\ ~log[j].ret.allowed
  /\ log[j].ret.reason = reason

RECURSIVE SumCosts(_, _)
SumCosts(js, n) ==
  IF n = 0 THEN 0
  ELSE SumCosts(js, n - 1) + (IF n \in js THEN log[n].cost ELSE 0)

\* cost units accepted before check j and stamped later than its time
\* minus the period
UnitsInWindow(j, rule) ==
  SumCosts({i \in 1 .. j - 1 :
              /\ Allowed(i)
              /\ log[i].t > log[j].t - Sec(rule.period_seconds)}, j - 1)

SlidingTimes == <<0, 0, 0, 10, 61>>

\* C9: sliding window: a check is allowed exactly when the cost units
\* accepted later than now - period_seconds, plus its cost, do not exceed
\* requests_per_period; with 3 per 60 s, three cost-1 checks at t = 0 are
\* allowed, a fourth at t = 10 is denied with rate_limit_exceeded and a
\* check at t = 61 is allowed.
C9_SlidingWindow ==
  (DOMAIN rules # {} /\ Registered.strategy = SLIDING_WINDOW) =>
    /\ \A j \in DOMAIN log :
         Allowed(j) <=> (UnitsInWindow(j, Registered) + log[j].cost
                           <= Registered.requests_per_period)
    /\ \A j \in DOMAIN log :
         ~Allowed(j) => Denied(j, "rate_limit_exceeded")
    /\ Registered = SlidingExample =>
         /\ \A n \in 1 .. 3 : RunIs(SlidingTimes, n) => Allowed(n)
         /\ RunIs(SlidingTimes, 4) => Denied(4, "rate_limit_exceeded")
         /\ RunIs(SlidingTimes, 5) => Allowed(5)

C9_Witness ==
  /\ DOMAIN rules # {}
  /\ Registered = SlidingExample
  /\ RunIs(SlidingTimes, 5)
  /\ Allowed(3) /\ ~Allowed(4) /\ Allowed(5)

TokenTimes == <<0, 0, 0, 0, 0, 0, 0, 0, 0, 0, 0, 6>>

\* C10: token bucket: the first check of a pair finds the bucket full, at
\* burst_limit tokens, or requests_per_period when burst_limit is absent;
\* with 10 per 60 s and burst_limit 10, ten cost-1 checks in a row are
\* allowed, the eleventh is denied with insufficient_tokens, and a cost-1
\* check 6 seconds later is allowed.
C10_TokenBucket ==
  (DOMAIN rules # {} /\ Registered.strategy = TOKEN_BUCKET) =>
    /\ Len(log) >= 1 =>
         /\ Allowed(1)
         /\ log[1].ret.tokens_remaining
              = (RuleCapacity(Registered) - log[1].cost) * Scale
    /\ Registered = TokenExample =>
         /\ \A n \in 1 .. 10 : RunIs(TokenTimes, n) => Allowed(n)
         /\ RunIs(TokenTimes, 11) => Denied(11, "insufficient_tokens")
         /\ RunIs(TokenTimes, 12) => Allowed(12)

C10_Witness ==
  /\ DOMAIN rules # {}
  /\ Registered = TokenExample
  /\ RunIs(TokenTimes, 12)
  /\ Allowed(10) /\ ~Allowed(11) /\ Allowed(12)

LeakyTimes == <<0, 0, 0, 0, 0, 0, 2>>

\* C11: leaky bucket: the first check of a pair finds the water level at 0;
\* with 5 per 10 s and no burst_limit, five cost-1 checks in a row are
\* allowed and leave water_level = 5, the sixth is denied with
\* bucket_overflow, and a cost-1 check 2 seconds later, when one unit has
\* drained, is allowed.
C11_LeakyBucket ==
  (DOMAIN rules # {} /\ Registered.strategy = LEAKY_BUCKET) =>
    /\ Len(log) >= 1 =>
         /\ Allowed(1)
         /\ log[1].ret.water_level = log[1].cost * Scale
    /\ Registered = LeakyExample =>
         /\ \A n \in 1 .. 5 :
              RunIs(LeakyTimes, n) =>
                Allowed(n) /\ log[n].ret.water_level = n * Scale
         /\ RunIs(LeakyTimes, 6) =>
              /\ Denied(6, "bucket_overflow")
              /\ log[6].ret.current_level = 5 * Scale
         /\ RunIs(LeakyTimes, 7) =>
              Allowed(7) /\ log[7].ret.water_level = 5 * Scale

C11_Witness ==
  /\ DOMAIN rules # {}
  /\ Registered = LeakyExample
  /\ RunIs(LeakyTimes, 7)
  /\ Allowed(5) /\ ~Allowed(6) /\ Allowed(7)
  /\ counters[CounterKey("user:message", "1")].water_level = 5 * Scale

\* an identifier that no call of the model ever uses
FreshIdentifier == "fresh"

\* the check that follows a reset_limit of its pair
AfterReset(p) ==
  /\ BodyStep(p)
  /\ call.op = "reset_limit"
  /\ call.key = pc[p].key
  /\ call.identifier = pc[p].identifier

\* C12: for every strategy and every history of the pair, the check_limit
\* that follows reset_limit(key, identifier) returns what the same check at
\* the same time returns for an identifier that was never checked, and
\* leaves the counter that check would leave.
C12_ResetIsFresh ==
  [][\A p \in Procs :
       AfterReset(p) =>
         LET fk == CounterKey(pc[p].key, FreshIdentifier)
             fresh == Dispatch(pc[p].key, FreshIdentifier, pc[p].rule,
                               pc[p].cost, now, counters)
         IN  /\ fk \notin DOMAIN counters
             /\ ret' = fresh.ret
             /\ (PairKey(p) \in DOMAIN counters')
                  <=> (fk \in DOMAIN fresh.counters)
             /\ PairKey(p) \in DOMAIN counters'
                  => StoredAfter(p) = fresh.counters[fk]]_vars

\* a pair that was checked before (its guard exists), then reset, is about
\* to be checked again at a later time under a token-bucket rule
C12_Witness ==
  /\ pc[1].at = "acquire"
  /\ call.op = "reset_limit"
  /\ call.key = pc[1].key /\ call.identifier = pc[1].identifier
  /\ pc[1].rule.strategy = TOKEN_BUCKET
  /\ pc[1].cost = 2
  /\ pc[1].key \o ":" \o pc[1].identifier \in DOMAIN locks
  /\ now > 0

\* the counter of a pair, Absent when the pair has none
Absent == [absent |-> TRUE]

CounterOf(ctrs, k, i) ==
  IF k \o ":" \o i \in DOMAIN ctrs THEN ctrs[k \o ":" \o i] ELSE Absent

\* C13 as stated: a check_limit or a reset_limit of one pair leaves the
\* counter of every other pair as it was, also when rule keys and
\* identifiers contain ':'.
C13_Partitioned ==
  [][\A k \in PairKeys, i \in PairIdentifiers :
       (\/ BodyStep(1) /\ <<pc[1].key, pc[1].identifier>> # <<k, i>>
        \/ /\ call'.op = "reset_limit"
           /\ <<call'.key, call'.identifier>> # <<k, i>>)
         => CounterOf(counters', k, i) = CounterOf(counters, k, i)]_vars

\* C14: fixed window: when burst_limit is set and the count of the current
\* window has reached it, the check is denied with burst_limit_exceeded
\* whatever its cost, also when count + cost exceeds the quota as well;
\* otherwise it is denied with rate_limit_exceeded exactly when
\* count + cost > requests_per_period, and allowed in every other case.
C14_FixedWindowDecision ==
  [][\A p \in Procs :
       (/\ BodyStep(p)
        /\ pc[p].rule.strategy = FIXED_WINDOW
        /\ pc[p].rule.period_seconds > 0)
         => /\ Returned'
            /\ IF /\ pc[p].rule.burst_limit # None
                  /\ PreCount(p) >= pc[p].rule.burst_limit
               THEN /\ ~ret'.allowed
                    /\ ret'.reason = "burst_limit_exceeded"
               ELSE IF PreCount(p) + pc[p].cost
                         > pc[p].rule.requests_per_period
               THEN /\ ~ret'.allowed
                    /\ ret'.reason = "rate_limit_exceeded"
               ELSE ret'.allowed]_vars

\* a check that fails both tests is reported as burst_limit_exceeded
C14_Witness ==
  /\ IsCheck /\ Returned /\ ~ret.allowed
  /\ ret.reason = "burst_limit_exceeded"
  /\ ret.current = 2 /\ ret.limit = 2
  /\ call.cost = 2
  /\ rules[call.key].requests_per_period = 3

\* C15 as stated: under a fixed-window rule with burst_limit set, a check of
\* cost >= 1 that finds the count of its window at or below burst_limit
\* leaves the stored count at or below burst_limit.
C15_BurstCeiling ==
  [][\A p \in Procs :
       (/\ BodyStep(p)
        /\ pc[p].rule.strategy = FIXED_WINDOW
        /\ pc[p].rule.period_seconds > 0
        /\ pc[p].rule.burst_limit # None
        /\ pc[p].cost >= 1
        /\ PreCount(p) <= pc[p].rule.burst_limit)
         => StoredAfter(p).count <= pc[p].rule.burst_limit]_vars

\* the allowed checks before check j whose timestamps are still in the
\* window at the time of check j
StampedInWindow(j, rule) ==
  {i \in 1 .. j - 1 :
     Allowed(i) /\ log[i].t > log[j].t - Sec(rule.period_seconds)}

OldestStamp(j, rule) ==
  log[CHOOSE i \in StampedInWindow(j, rule) :
        \A k \in StampedInWindow(j, rule) : i <= k].t

\* C16 as stated: sliding window: a denied check reports reset_in = oldest
\* remaining timestamp + period_seconds - now, and reset_in = 0 when no
\* timestamp remains in the window (cost > requests_per_period against an
\* empty window).  reset_in is in ticks.
C16_SlidingResetIn ==
  (DOMAIN rules # {} /\ Registered.strategy = SLIDING_WINDOW) =>
    \A j \in DOMAIN log :
      ~Allowed(j) =>
        log[j].ret.reset_in
          = IF StampedInWindow(j, Registered) = {} THEN 0
            ELSE OldestStamp(j, Registered)
                   + Sec(Registered.period_seconds) - log[j].t

\* the step of a call made by a caller between two checks: it sets `call`
\* and leaves the clock and the position of every caller alone
OpStep(op) == call'.op = op /\ pc' = pc /\ now' = now

IsBucket(counter) ==
  "tokens" \in DOMAIN counter \/ "water_level" \in DOMAIN counter

LastActivity(counter) ==
  IF "tokens" \in DOMAIN counter THEN counter.last_update
  ELSE counter.last_leak

\* C17: cleanup_old_entries(max_age) deletes exactly the token-bucket and
\* leaky-bucket counters whose last_update / last_leak is more than max_age
\* seconds before now; every other counter (a bucket of age <= max_age, any
\* fixed-window or sliding-window counter) stays in place unchanged, and no
\* counter is created.
C17_CleanupExact ==
  [][OpStep("cleanup_old_entries") =>
       /\ DOMAIN counters' \subseteq DOMAIN counters
       /\ \A k \in DOMAIN counters :
            IF /\ IsBucket(counters[k])
               /\ now - LastActivity(counters[k])
                    > call'.max_age * TicksPerSec
            THEN k \notin DOMAIN counters'
            ELSE k \in DOMAIN counters' /\ counters'[k] = counters[k]]_vars

\* after a sweep with max_age 0: a sliding-window counter with an older
\* timestamp and a leaky bucket used at this instant are in place, and the
\* counter of a pair that was checked before is gone
C17_Witness ==
  /\ call.op = "cleanup_old_entries"
  /\ call.max_age = 0
  /\ call.t = now
  /\ \E k \in DOMAIN counters :
       /\ "timestamps" \in DOMAIN counters[k]
       /\ counters[k].timestamps # << >>
       /\ counters[k].timestamps[1] < now
  /\ \E k \in DOMAIN counters :
       "last_leak" \in DOMAIN counters[k] /\ counters[k].last_leak = now
  /\ \E k \in DOMAIN locks : k \notin DOMAIN counters

\* the keys of the fixed-window and sliding-window counters
WindowCounters ==
  {k \in DOMAIN counters :
     "window" \in DOMAIN counters[k] \/ "timestamps" \in DOMAIN counters[k]}

\* C18: get_global_stats returns total_requests_tracked = the sum of the
\* stored count of the fixed-window and sliding-window counters,
\* active_rate_limits = the number of those counters and total_rules = the
\* number of registered rules; bucket counters add to neither of the first
\* two; the call changes no rule, counter or guard.
C18_GlobalStats ==
  [][OpStep("get_global_stats") =>
       /\ ret'.total_requests_tracked = SumCounts(counters, WindowCounters)
       /\ ret'.active_rate_limits = Cardinality(WindowCounters)
       /\ ret'.total_rules = Cardinality(DOMAIN rules)
       /\ UNCHANGED <<rules, counters, locks>>]_vars

\* statistics read with two window counters and one bucket counter stored
C18_Witness ==
  /\ call.op = "get_global_stats"
  /\ Cardinality(DOMAIN counters) = 3
  /\ Cardinality(WindowCounters) = 2
  /\ ret.active_rate_limits = 2
  /\ ret.total_requests_tracked = 2
  /\ ret.total_rules = 2

\* the counter has the fields of the strategy
ShapedFor(counter, strategy) ==
  CASE strategy = FIXED_WINDOW -> "window" \in DOMAIN counter
    [] strategy = SLIDING_WINDOW -> "timestamps" \in DOMAIN counter
    [] strategy = TOKEN_BUCKET -> "tokens" \in DOMAIN counter
    [] strategy = LEAKY_BUCKET -> "water_level" \in DOMAIN counter

\* what get_usage shows of a counter of the strategy
Shown(info, counter, strategy) ==
  CASE strategy = FIXED_WINDOW -> info.current_count = counter.count
    [] strategy = SLIDING_WINDOW ->
         /\ info.current_count = counter.count
         /\ info.request_timestamps = counter.timestamps
    [] strategy = TOKEN_BUCKET -> info.tokens = counter.tokens
    [] strategy = LEAKY_BUCKET ->
         /\ info.water_level = counter.water_level
         /\ info.capacity = counter.capacity

C20_AddRuleKeepsCounters ==
  [][OpStep("add_rule") =>
       /\ DOMAIN rules' = DOMAIN rules \cup {call'.key}
       /\ rules'[call'.key] = call'.rule
       /\ \A k \in DOMAIN rules \ {call'.key} : rules'[k] = rules[k]
       /\ counters' = counters
       /\ locks' = locks]_vars

\* the key "user" has just been re-registered as a token bucket: its
\* fixed-window counter and the counter of the other key are still stored
C20_Witness ==
  /\ call.op = "add_rule"
  /\ call.key = "user"
  /\ call.rule.strategy = TOKEN_BUCKET
  /\ rules["user"] = call.rule
  /\ "user:1" \in DOMAIN counters
  /\ "window" \in DOMAIN counters["user:1"]
  /\ counters["user:1"].count = 2
  /\ "user:message:message:1" \in DOMAIN counters
  /\ "user:1" \in DOMAIN locks

DeniedAfter(reason) ==
  /\ "allowed" \in DOMAIN ret'
  /\ ~ret'.allowed
  /\ ret'.reason = reason

\* C21: token bucket: every check, allowed or denied, first adds
\* elapsed * (requests_per_period / period_seconds) tokens, capped at the
\* capacity, and sets last_update to now; it is denied with
\* insufficient_tokens exactly when its cost exceeds the refilled tokens; a
\* denied check leaves the refilled tokens, an allowed one takes its cost.
C21_TokenRefill ==
  [][\A p \in Procs :
       InScope(p, TOKEN_BUCKET) =>
         /\ Returned'
         /\ StoredAfter(p).last_update = now
         /\ IF pc[p].cost * Scale > PreTokens(p)
            THEN /\ DeniedAfter("insufficient_tokens")
                 /\ ret'.current_tokens = PreTokens(p)
                 /\ StoredAfter(p).tokens = PreTokens(p)
            ELSE /\ ret'.allowed
                 /\ StoredAfter(p).tokens
                      = PreTokens(p) - pc[p].cost * Scale]_vars

\* a denied check that found a partly refilled bucket
C21_Witness ==
  /\ IsCheck /\ Returned /\ ~ret.allowed
  /\ ret.reason = "insufficient_tokens"
  /\ ret.current_tokens > 0
  /\ call.t > 0
  /\ counters[CounterKey(call.key, call.identifier)].tokens
       = ret.current_tokens
  /\ counters[CounterKey(call.key, call.identifier)].last_update = call.t

\* C22: leaky bucket: every check, allowed or denied, first lowers
\* water_level by elapsed * (requests_per_period / period_seconds), not
\* below 0, and sets last_leak to now; it is denied with bucket_overflow
\* exactly when the drained level plus its cost exceeds the capacity of the
\* pair's bucket; a denied check leaves the drained level, an allowed one
\* adds its cost.
C22_LeakyDrain ==
  [][\A p \in Procs :
       InScope(p, LEAKY_BUCKET) =>
         /\ Returned'
         /\ StoredAfter(p).last_leak = now
         /\ IF PreLevel(p) + pc[p].cost * Scale > PreCapacity(p) * Scale
            THEN /\ DeniedAfter("bucket_overflow")
                 /\ ret'.current_level = PreLevel(p)
                 /\ StoredAfter(p).water_level = PreLevel(p)
            ELSE /\ ret'.allowed
                 /\ StoredAfter(p).water_level
                      = PreLevel(p) + pc[p].cost * Scale]_vars

\* a denied check that found a partly drained bucket
C22_Witness ==
  /\ IsCheck /\ Returned /\ ~ret.allowed
  /\ ret.reason = "bucket_overflow"
  /\ ret.current_level > 0
  /\ ret.current_level < ret.capacity * Scale
  /\ call.t > 0
  /\ counters[CounterKey(call.key, call.identifier)].water_level
       = ret.current_level
  /\ counters[CounterKey(call.key, call.identifier)].last_leak = call.t

\* C23 as stated: leaky bucket: on every check, also after add_rule has
\* replaced the key's rule, the check is denied exactly when the drained
\* water_level plus cost exceeds the registered rule's burst_limit (its
\* requests_per_period when burst_limit is absent).
C23_LeakyCapacityOfRule ==
  [][\A p \in Procs :
       InScope(p, LEAKY_BUCKET) =>
         /\ Returned'
         /\ ret'.allowed
              <=> (PreLevel(p) + pc[p].cost * Scale
                     <= RuleCapacity(pc[p].rule) * Scale)]_vars

NonDecreasing(s) == \A i, j \in DOMAIN s : i <= j => s[i] <= s[j]

\* C24: sliding window: each check first removes every timestamp
\* <= now - period_seconds; an allowed check of cost c then appends exactly
\* c timestamps equal to now, a denied check appends none; after the check
\* count is the length of the timestamp sequence, and the sequence is in
\* non-decreasing order.
C24_SlidingTimestamps ==
  [][\A p \in Procs :
       InScope(p, SLIDING_WINDOW) =>
         LET before == IF HasCounter(p) THEN Stored(p).timestamps ELSE << >>
             kept == SelectSeq(before,
                       LAMBDA ts : ~(ts <= now - pc[p].rule.period_seconds
                                                   * TicksPerSec))
         IN  /\ Returned'
             /\ StoredAfter(p).timestamps
                  = IF ret'.allowed
                    THEN kept \o [i \in 1 .. pc[p].cost |-> now]
                    ELSE kept
             /\ StoredAfter(p).count = Len(StoredAfter(p).timestamps)
             /\ NonDecreasing(StoredAfter(p).timestamps)]_vars

\* an allowed check of cost 2 after the timestamps of the first second
\* have left the window
C24_Witness ==
  /\ IsCheck /\ Returned /\ ret.allowed
  /\ call.cost = 2
  /\ call.t = MaxTime
  /\ call.key \in DOMAIN rules
  /\ rules[call.key].strategy = SLIDING_WINDOW
  /\ "timestamps" \in DOMAIN counters[CounterKey(call.key, call.identifier)]
  /\ counters[CounterKey(call.key, call.identifier)].timestamps
       = <<MaxTime - 1, MaxTime, MaxTime>>
  /\ counters[CounterKey(call.key, call.identifier)].count = 3

\* C25 as stated: fixed window: after every check the stored window start is
\* now - (now mod period_seconds) for the integer time now of the check, a
\* multiple of period_seconds whenever the pair was first checked, and the
\* stored reset_time is the window start + period_seconds.
C25_WindowAligned ==
  [][\A p \in Procs :
       (/\ BodyStep(p)
        /\ pc[p].rule.strategy = FIXED_WINDOW
        /\ pc[p].rule.period_seconds > 0)
         => LET nowS == now \div TicksPerSec
                period == pc[p].rule.period_seconds
            IN  /\ StoredAfter(p).window = nowS - (nowS % period)
                /\ StoredAfter(p).window % period = 0
                /\ StoredAfter(p).reset_time
                     = StoredAfter(p).window + period]_vars

\* C26: a denied check_limit consumes nothing: the fixed-window count is
\* the count of the current window as the check found it (0 after a
\* rollover), the sliding window holds the pruned timestamps and no more,
\* the token bucket holds the refilled tokens, the leaky bucket the drained
\* water level.
C26_DeniedConsumesNothing ==
  [][\A p \in Procs :
       (AnyScope(p) /\ "allowed" \in DOMAIN ret' /\ ~ret'.allowed) =>
         CASE pc[p].rule.strategy = FIXED_WINDOW ->
                StoredAfter(p).count = PreCount(p)
           [] pc[p].rule.strategy = SLIDING_WINDOW ->
                /\ Len(StoredAfter(p).timestamps) = PreUnits(p)
                /\ StoredAfter(p).count = PreUnits(p)
                /\ HasCounter(p) =>
                     \A i \in DOMAIN StoredAfter(p).timestamps :
                       \E j \in DOMAIN Stored(p).timestamps :
                         StoredAfter(p).timestamps[i]
                           = Stored(p).timestamps[j]
           [] pc[p].rule.strategy = TOKEN_BUCKET ->
                StoredAfter(p).tokens = PreTokens(p)
           [] pc[p].rule.strategy = LEAKY_BUCKET ->
                StoredAfter(p).water_level = PreLevel(p)]_vars

\* a denied sliding-window check of cost 2 that left the one timestamp it
\* found
C26_Witness ==
  /\ IsCheck /\ Returned /\ ~ret.allowed
  /\ ret.reason = "rate_limit_exceeded"
  /\ call.cost = 2
  /\ rules[call.key].strategy = SLIDING_WINDOW
  /\ ret.current = 1
  /\ "timestamps" \in DOMAIN counters[CounterKey(call.key, call.identifier)]
  /\ Len(counters[CounterKey(call.key, call.identifier)].timestamps) = 1

\* C27: under a fixed-window or sliding-window rule that is never
\* replaced, with costs >= 1, the stored count of the pair is between 0 and
\* requests_per_period in every state, and for a sliding window the units
\* accepted in the period_seconds up to and including any check are at
\* most requests_per_period.
C27_CountWithinQuota ==
  (/\ DOMAIN rules # {}
   /\ Registered.strategy \in {FIXED_WINDOW, SLIDING_WINDOW}) =>
    /\ \A k \in DOMAIN counters :
         /\ 0 <= counters[k].count
         /\ counters[k].count <= Registered.requests_per_period
    /\ Registered.strategy = SLIDING_WINDOW =>
         \A j \in DOMAIN log :
           UnitsInWindow(j, Registered)
             + (IF Allowed(j) THEN log[j].cost ELSE 0)
               <= Registered.requests_per_period

\* a fixed window filled to its quota in its second window, past its
\* burst_limit
C27_Witness ==
  /\ DOMAIN rules # {}
  /\ Registered = RateLimitRule(FIXED_WINDOW, 3, 2, 2, 1)
  /\ \E k \in DOMAIN counters :
       counters[k] = [count |-> 3, window |-> 2, reset_time |-> 4]
  /\ Len(log) >= 4

\* C28: token bucket: with costs >= 0 and a clock that does not go back,
\* after every check the stored tokens of the pair are between 0 and the
\* capacity of the rule the check ran under (burst_limit, or
\* requests_per_period when burst_limit is absent).
C28_TokensWithinCapacity ==
  [][\A p \in Procs :
       InScope(p, TOKEN_BUCKET) =>
         /\ 0 <= StoredAfter(p).tokens
         /\ StoredAfter(p).tokens <= RuleCapacity(pc[p].rule) * Scale]_vars

\* a check that emptied a bucket which had refilled to its capacity
C28_Witness ==
  /\ IsCheck /\ Returned /\ ret.allowed
  /\ "tokens_remaining" \in DOMAIN ret
  /\ ret.tokens_remaining = 0
  /\ call.cost = 2
  /\ call.t = MaxTime
  /\ counters[CounterKey(call.key, call.identifier)].tokens = 0
  /\ CounterKey(call.key, call.identifier) \in DOMAIN locks

\* C29: leaky bucket: with costs >= 0 and a clock that does not go back,
\* in every state the stored water_level of a pair is between 0 and the
\* capacity stored in the pair's counter.
C29_LevelWithinCapacity ==
  \A k \in DOMAIN counters :
    "water_level" \in DOMAIN counters[k] =>
      /\ 0 <= counters[k].water_level
      /\ counters[k].water_level <= counters[k].capacity * Scale

\* a bucket filled to its stored capacity by a check made after it had
\* drained
C29_Witness ==
  /\ IsCheck /\ Returned /\ ret.allowed
  /\ "capacity_remaining" \in DOMAIN ret
  /\ ret.capacity_remaining = 0
  /\ call.cost = 1
  /\ call.t = MaxTime
  /\ counters[CounterKey(call.key, call.identifier)].capacity = 2
  /\ counters[CounterKey(call.key, call.identifier)].water_level = 2 * Scale

\* check k is made at least the wait_time of the denied check j later
WaitedOut(j, k) ==
  (log[k].t - log[j].t) * log[j].ret.wait_time.den
    >= log[j].ret.wait_time.num * TicksPerSec

\* C30: bucket strategies: when a check of cost c <= capacity is denied
\* with wait_time w, a check of the same cost made w or more seconds later
\* is allowed, provided no check of the pair was allowed in between.
C30_WaitTimeSuffices ==
  (/\ DOMAIN rules # {}
   /\ Registered.strategy \in {TOKEN_BUCKET, LEAKY_BUCKET}) =>
    \A j, k \in DOMAIN log :
      (/\ j < k
       /\ ~Allowed(j)
       /\ log[j].cost <= RuleCapacity(Registered)
       /\ log[k].cost = log[j].cost
       /\ WaitedOut(j, k)
       /\ \A i \in j + 1 .. k - 1 : ~Allowed(i))
        => Allowed(k)

\* a leaky-bucket check of cost 2 denied with wait_time 2 s, denied again
\* at once, and allowed 2 s later
C30_Witness ==
  /\ DOMAIN rules # {}
  /\ Registered = LeakyExample
  /\ \E j \in DOMAIN log :
       /\ j + 2 \in DOMAIN log
       /\ ~Allowed(j) /\ ~Allowed(j + 1) /\ Allowed(j + 2)
       /\ log[j].cost = 2 /\ log[j + 2].cost = 2
       /\ log[j + 1].t = log[j].t
       /\ log[j + 2].t - log[j].t = Sec(2)
       /\ log[j].ret.wait_time.num = 2 * log[j].ret.wait_time.den

\* two durations [num, den] are the same number of seconds
SameFrac(a, b) == a.num * b.den = b.num * a.den

\* C31 as stated: token bucket: an allowed check reports tokens_remaining =
\* the stored tokens after consumption, refill_rate = requests_per_period /
\* period_seconds and time_to_full = (capacity - tokens_remaining) /
\* refill_rate, with burst_limit set and with burst_limit absent.
C31_TokenDiagnostics ==
  [][\A p \in Procs :
       (InScope(p, TOKEN_BUCKET) /\ AllowedAfter) =>
         /\ ret'.tokens_remaining = StoredAfter(p).tokens
         /\ SameFrac(ret'.refill_rate,
                     Frac(pc[p].rule.requests_per_period,
                          pc[p].rule.period_seconds))
         /\ SameFrac(ret'.time_to_full,
                     Frac((RuleCapacity(pc[p].rule) * Scale
                             - StoredAfter(p).tokens)
                            * pc[p].rule.period_seconds,
                          Scale * pc[p].rule.requests_per_period))]_vars

\* C32 as stated: fixed window: an allowed check reports remaining =
\* requests_per_period - (count after the call), which is >= 0, and every
\* fixed-window result, allowed or denied, reports reset_in = reset_time - now
\* with 0 < reset_in <= period_seconds.
C32_FixedDiagnostics ==
  [][\A p \in Procs :
       InScope(p, FIXED_WINDOW) =>
         /\ AllowedAfter =>
               /\ ret'.remaining
                    = pc[p].rule.requests_per_period - StoredAfter(p).count
               /\ ret'.remaining >= 0
         /\ ret'.reset_in
              = StoredAfter(p).reset_time - (now \div TicksPerSec)
         /\ 0 < ret'.reset_in
         /\ ret'.reset_in <= pc[p].rule.period_seconds]_vars

\* C33: guards are created lazily, by the first check of a pair against a
\* registered rule, and are never removed: reset_limit and
\* cleanup_old_entries delete counters only, so the set of guards never
\* shrinks over any sequence of operations.
C33_GuardsRetained ==
  [][/\ DOMAIN locks \subseteq DOMAIN locks'
     /\ DOMAIN locks' # DOMAIN locks =>
           \E p \in Procs :
             /\ pc[p].at = "acquire" /\ pc'[p].at = "crit"
             /\ pc[p].key \in DOMAIN rules
             /\ DOMAIN locks'
                  = DOMAIN locks \cup {LockKey(pc[p].key, pc[p].identifier)}
     /\ (OpStep("reset_limit") \/ OpStep("cleanup_old_entries")) =>
           locks' = locks]_vars

\* a reset or a cleanup has deleted the counter of a pair whose guard stays
C33_Witness ==
  /\ call.op \in {"reset_limit", "cleanup_old_entries"}
  /\ \E k \in DOMAIN locks : k \notin DOMAIN counters

\* the step is a call that creates neither a counter nor a guard
Passive ==
  \/ OpStep("get_usage")
  \/ OpStep("get_global_stats")
  \/ OpStep("add_rule")
  \/ OpStep("check_limit") /\ call'.key \notin DOMAIN rules

\* C34: counters are created only by a check_limit against a registered
\* rule: every existing counter belongs to a pair whose rule key is
\* registered and that has been checked at least once, and a check_limit on
\* an unregistered key, a get_usage, a get_global_stats or an add_rule
\* creates no counter and no guard.
C34_CountersFromChecks ==
  /\ [](\A k \in DOMAIN counters :
          /\ k \in DOMAIN locks
          /\ \E key \in DOMAIN rules, i \in Identifiers :
               k = CounterKey(key, i))
  /\ [][/\ ~(DOMAIN counters' \subseteq DOMAIN counters) =>
              \E p \in Procs :
                /\ BodyStep(p)
                /\ pc[p].key \in DOMAIN rules
                /\ DOMAIN counters' = DOMAIN counters \cup {PairKey(p)}
        /\ Passive =>
              /\ DOMAIN counters' = DOMAIN counters
              /\ DOMAIN locks' = DOMAIN locks]_vars

\* a check on an unregistered key has returned while another pair has a
\* counter, and the unregistered pair has neither counter nor guard
C34_Witness ==
  /\ IsCheck
  /\ call.key \notin DOMAIN rules
  /\ DOMAIN counters # {}
  /\ CounterKey(call.key, call.identifier)
       \notin DOMAIN counters \cup DOMAIN locks

\* values of burst_limit a sliding-window rule may carry
BurstLimits == {None, 1, 2, 3}

\* C35: the sliding window ignores burst_limit: a check under a
\* sliding-window rule has the same result and leaves the same counters as
\* the same check under the rule with any other burst_limit; from equal
\* states, two rules that differ only in burst_limit therefore give the same
\* decisions and counter states over every sequence of checks.
C35_SlidingIgnoresBurst ==
  [][\A p \in Procs :
       (BodyStep(p) /\ pc[p].rule.strategy = SLIDING_WINDOW) =>
         \A b \in BurstLimits :
           LET other == Dispatch(pc[p].key, pc[p].identifier,
                                 [pc[p].rule EXCEPT !.burst_limit = b],
                                 pc[p].cost, now, counters)
           IN  /\ other.ret = ret'
               /\ other.counters = counters']_vars

\* a sliding-window check was allowed with the count above the rule's
\* burst_limit
C35_Witness ==
  /\ IsCheck
  /\ Returned
  /\ ret.allowed
  /\ call.key \in DOMAIN rules
  /\ rules[call.key].strategy = SLIDING_WINDOW
  /\ Truthy(rules[call.key].burst_limit)
  /\ CounterKey(call.key, call.identifier) \in DOMAIN counters
  /\ "timestamps" \in DOMAIN counters[CounterKey(call.key, call.identifier)]
  /\ counters[CounterKey(call.key, call.identifier)].count
       > rules[call.key].burst_limit

\* the last call was a handler that reached its rate-limit test
Gated ==
  /\ call.op \in {"command_start", "should_process_message"}
  /\ call.outcome # "filtered"

\* C36 as stated: the /start handler and should_process_message check the
\* user against a registered rule (user:command, user:message or
\* group:message) with a rule key and an identifier, proceed when the limiter
\* allows the request and stop when it denies it.
C36_HandlersGate ==
  Gated =>
    /\ Len(call.args) >= 2
    /\ call.args[1] \in {"user:command", "user:message", "group:message"}
    /\ call.args[1] \in DOMAIN rules
    /\ Returned
    /\ call.outcome = (IF ret.allowed THEN "proceeded" ELSE "stopped")

====
